---- MODULE Spec2Model ----
(***************************************************************************)
(* Model of the retrieval pipeline of wayuulingo-api:                      *)
(* SearchController.performSearch and SearchService (constructor,          *)
(* performSemanticSearch, generateEmbedding, generateAIResponse).          *)
(*                                                                         *)
(* JavaScript strings are sequences of character codes.  An optional value *)
(* (a key that may be absent, a field that may be undefined) is a sequence *)
(* of length 0 (absent) or 1 (present).                                    *)
(***************************************************************************)
EXTENDS Integers, Sequences, FiniteSets, TLC

\* ------------------------------------------------------------------ bounds
NumRequests == 2
MaxHits == 2
MaxPrimaryLen == 385
MaxContextHits == 6

\* ------------------------------------------------------- program constants
Dim == 384
GeminiDim == 768
MaxLimit == 10
ServiceDefaultLimit == 10
ControllerDefaultLimit == 5
DtoMinLimit == 1
DtoMaxLimit == 10
TopResults == 5
MaxPassageChars == 800
SpreadSlots == 10
HashMod == 100

\* "No se pudo generar una respuesta."
NO_RESPONSE_TEXT ==
  <<78, 111, 32, 115, 101, 32, 112, 117, 100, 111, 32, 103, 101, 110, 101,
    114, 97, 114, 32, 117, 110, 97, 32, 114, 101, 115, 112, 117, 101, 115,
    116, 97, 46>>

\* "Lo siento, no pude generar una respuesta inteligente en este momento.
\*  Pero puedes revisar los resultados de busqueda a continuacion."
APOLOGY_TEXT ==
  <<76, 111, 32, 115, 105, 101, 110, 116, 111, 44, 32, 110, 111, 32, 112,
    117, 100, 101, 32, 103, 101, 110, 101, 114, 97, 114, 32, 117, 110, 97,
    32, 114, 101, 115, 112, 117, 101, 115, 116, 97, 32, 105, 110, 116, 101,
    108, 105, 103, 101, 110, 116, 101, 32, 101, 110, 32, 101, 115, 116, 101,
    32, 109, 111, 109, 101, 110, 116, 111, 46, 32, 80, 101, 114, 111, 32,
    112, 117, 101, 100, 101, 115, 32, 114, 101, 118, 105, 115, 97, 114, 32,
    108, 111, 115, 32, 114, 101, 115, 117, 108, 116, 97, 100, 111, 115, 32,
    100, 101, 32, 98, 250, 115, 113, 117, 101, 100, 97, 32, 97, 32, 99, 111,
    110, 116, 105, 110, 117, 97, 99, 105, 243, 110, 46>>

\* "Error desconocido"
UNKNOWN_ERROR_TEXT ==
  <<69, 114, 114, 111, 114, 32, 100, 101, 115, 99, 111, 110, 111, 99, 105,
    100, 111>>

\* "wayuucollection"
COLLECTION_NAME ==
  <<119, 97, 121, 117, 117, 99, 111, 108, 108, 101, 99, 116, 105, 111, 110>>

\* The literals the service falls back to when the environment gives none.
HARDCODED_GEMINI_KEY == "hardcoded-gemini-key"
HARDCODED_QDRANT_URL == "hardcoded-qdrant-url"
HARDCODED_QDRANT_KEY == "hardcoded-qdrant-key"

\* ---------------------------------------------------------- optional values
Absent == <<>>
Present(v) == <<v>>
IsPresent(o) == Len(o) = 1

\* JavaScript truthiness of an optional string: defined and not "".
TruthyStr(o) == IsPresent(o) /\ Len(o[1]) > 0
\* JavaScript truthiness of an optional number: defined and not 0.
TruthyNum(o) == IsPresent(o) /\ o[1] # 0

\* --------------------------------------------------------------- strings
IsSpace(c) == c \in {9, 10, 13, 32}

LowerChar(c) == IF c >= 65 /\ c <= 90 THEN c + 32 ELSE c

ToLowerCase(s) == [i \in 1..Len(s) |-> LowerChar(s[i])]

RECURSIVE SkipSpaces(_, _)
SkipSpaces(s, i) ==
  IF i <= Len(s) /\ IsSpace(s[i]) THEN SkipSpaces(s, i + 1) ELSE i

\* text.split(/\s+/): a run of whitespace is one separator; leading and
\* trailing separators give empty first and last words; "" gives [""].
RECURSIVE SplitFrom(_, _, _, _)
SplitFrom(s, i, cur, acc) ==
  IF i > Len(s) THEN Append(acc, cur)
  ELSE IF IsSpace(s[i])
       THEN SplitFrom(s, SkipSpaces(s, i), <<>>, Append(acc, cur))
       ELSE SplitFrom(s, i + 1, Append(cur, s[i]), acc)

SplitWhitespace(s) == SplitFrom(s, 1, <<>>, <<>>)

RECURSIVE Digits(_)
Digits(n) ==
  IF n < 10 THEN <<48 + n>> ELSE Append(Digits(n \div 10), 48 + (n % 10))

\* hit.id.toString(): a number prints in decimal, a string is itself.
IdToString(id) == IF id.t = "int" THEN Digits(id.n) ELSE id.s

\* ------------------------------------------------------ 32-bit arithmetic
\* JavaScript remainder: the sign follows the dividend.
JSRem(a, b) == IF a >= 0 THEN a % b ELSE 0 - ((0 - a) % b)

\* One step of the rolling hash, ((hash << 5) - hash) + c truncated to a
\* signed 32-bit integer, computed on 16-bit halves so that no intermediate
\* value leaves the 32-bit range.
HashStep(hash, c) ==
  LET lo == hash % 65536
      hi == (hash - lo) \div 65536
      low == 31 * lo + c
      newlo == low % 65536
      carry == low \div 65536
      newhi == ((31 * hi + carry + 32768) % 65536) - 32768
  IN newhi * 65536 + newlo

RECURSIVE HashFrom(_, _, _)
HashFrom(word, i, hash) ==
  IF i > Len(word) THEN hash
  ELSE HashFrom(word, i + 1, HashStep(hash, word[i]))

WordHash(word) == HashFrom(word, 1, 0)

\* Mutant: Math.abs is forgotten, the remainder keeps the sign of the hash.
BaseIndex_NoAbs(hash, index) == JSRem(hash + index, Dim)

\* (Math.abs(hash) + index) % 384; Math.abs(-2^31) = 2^31 is reduced modulo
\* 384 before the addition so that it stays representable.
BaseIndex(hash, index) ==
  LET a == IF hash = (0 - 2147483647) - 1 THEN 128
           ELSE (IF hash < 0 THEN 0 - hash ELSE hash) % Dim
  IN (a + index) % Dim

\* ---------------------------------------------------------------- vectors
\* A vector is [vals, den2]: component i is vals[i] / sqrt(den2).  den2 = 0
\* is the division by a zero magnitude: every component is NaN.
PrimaryEmbedding(n) == [vals |-> [i \in 1..n |-> i], den2 |-> 1]

\* embedding.length > 384 ? embedding.slice(0, 384) : embedding
TruncateToDim(e) ==
  IF Len(e.vals) > Dim
  THEN [vals |-> SubSeq(e.vals, 1, Dim), den2 |-> e.den2]
  ELSE e

\* The inner loop for one word: += (hash % 100) / 100 on up to 10 slots from
\* baseIndex, stopping at the end of the vector.  Slots are 0-based in the
\* source and 1-based here; values are kept in hundredths.
AddWord(emb, word, index) ==
  LET hash == WordHash(word)
      base == BaseIndex(hash, index)
  IN [k \in 1..Len(emb) |->
        IF k - 1 >= base /\ k - 1 < base + SpreadSlots /\ k - 1 < Len(emb)
        THEN emb[k] + JSRem(hash, HashMod)
        ELSE emb[k]]

RECURSIVE AddWords(_, _, _)
AddWords(emb, words, i) ==
  IF i > Len(words) THEN emb
  ELSE AddWords(AddWord(emb, words[i], i - 1), words, i + 1)

\* embedding.reduce((sum, val) => sum + val * val, 0), summed by halves.
RECURSIVE SumSquares(_, _, _)
SumSquares(v, lo, hi) ==
  IF lo > hi THEN 0
  ELSE IF lo = hi THEN v[lo] * v[lo]
  ELSE LET mid == (lo + hi) \div 2
       IN SumSquares(v, lo, mid) + SumSquares(v, mid + 1, hi)

\* The hash-based fallback: accumulate, then divide by the magnitude.
FallbackEmbedding(text) ==
  LET words == SplitWhitespace(ToLowerCase(text))
      raw == AddWords([k \in 1..Dim |-> 0], words, 1)
  IN [vals |-> raw, den2 |-> SumSquares(raw, 1, Len(raw))]

NoEmbedding == [vals |-> <<>>, den2 |-> 1]

\* ------------------------------------------------------------- raw hits
IntId(n) == [t |-> "int", n |-> n, s |-> <<>>]
StrId(s) == [t |-> "str", n |-> 0, s |-> s]

\* hit.payload?.<key>: undefined when the payload or the key is absent.
PayloadKey(hit, key) ==
  IF IsPresent(hit.payload) THEN hit.payload[1][key] ELSE Absent

\* Mutant: the source key is preferred to file_name.
NormalizeHit_SourceFirst(hit) ==
  [id |-> IdToString(hit.id),
   score |-> hit.score,
   payload |->
     [text |-> IF TruthyStr(PayloadKey(hit, "text"))
               THEN PayloadKey(hit, "text")[1] ELSE <<>>,
      source |-> IF TruthyStr(PayloadKey(hit, "source"))
                 THEN PayloadKey(hit, "source")[1]
                 ELSE IF TruthyStr(PayloadKey(hit, "file_name"))
                      THEN PayloadKey(hit, "file_name")[1]
                      ELSE <<>>,
      chunk_index |-> IF TruthyNum(PayloadKey(hit, "chunk_index"))
                      THEN PayloadKey(hit, "chunk_index")[1] ELSE 0,
      total_chunks |-> IF TruthyNum(PayloadKey(hit, "total_chunks"))
                       THEN PayloadKey(hit, "total_chunks")[1] ELSE 0,
      upload_timestamp |-> PayloadKey(hit, "upload_timestamp")]]

\* The mapping of one raw hit to a SearchResult.
NormalizeHit(hit) ==
  [id |-> IdToString(hit.id),
   score |-> hit.score,
   payload |->
     [text |-> IF TruthyStr(PayloadKey(hit, "text"))
               THEN PayloadKey(hit, "text")[1] ELSE <<>>,
      source |-> IF TruthyStr(PayloadKey(hit, "file_name"))
                 THEN PayloadKey(hit, "file_name")[1]
                 ELSE IF TruthyStr(PayloadKey(hit, "source"))
                      THEN PayloadKey(hit, "source")[1]
                      ELSE <<>>,
      chunk_index |-> IF TruthyNum(PayloadKey(hit, "chunk_index"))
                      THEN PayloadKey(hit, "chunk_index")[1] ELSE 0,
      total_chunks |-> IF TruthyNum(PayloadKey(hit, "total_chunks"))
                       THEN PayloadKey(hit, "total_chunks")[1] ELSE 0,
      upload_timestamp |-> PayloadKey(hit, "upload_timestamp")]]

\* searchResult.map(...): one result per hit, in the backend's order.
RECURSIVE NormalizeFrom(_, _)
NormalizeFrom(hits, i) ==
  IF i > Len(hits) THEN <<>>
  ELSE <<NormalizeHit(hits[i])>> \o NormalizeFrom(hits, i + 1)

NormalizeHits(hits) == NormalizeFrom(hits, 1)

\* results.slice(0, 5)
TopSlice(results) ==
  IF Len(results) > TopResults THEN SubSeq(results, 1, TopResults)
  ELSE results

\* ---------------------------------------------------------------- context
\* Mutant: the passage is rendered whole.
Substring_Whole(s, n) == s

\* s.substring(0, n)
Substring(s, n) == IF Len(s) > n THEN SubSeq(s, 1, n) ELSE s

\* One rendered block; i is the 0-based index given by map().  The block is
\* kept as the values interpolated into its template: rank, score, source,
\* fragment position and total, passage text.
ContextBlock(result, i) ==
  [rank |-> i + 1,
   score |-> result.score,
   source |-> result.payload.source,
   fragment |-> result.payload.chunk_index + 1,
   total |-> result.payload.total_chunks,
   content |-> Substring(result.payload.text, MaxPassageChars)]

\* searchResults.slice(0, 5).map(...).join(''): the blocks in order.
AssembleContext(searchResults) ==
  LET top == TopSlice(searchResults)
  IN [i \in 1..Len(top) |-> ContextBlock(top[i], i - 1)]

\* ------------------------------------------------------------- responses
\* Mutant: the message of the thrown error is dropped.
ErrorMessage_Unknown(err) == UNKNOWN_ERROR_TEXT

\* error instanceof Error ? error.message : 'Error desconocido'
ErrorMessage(err) == IF err.isError THEN err.message ELSE UNKNOWN_ERROR_TEXT

\* The object returned by the catch block of performSemanticSearch.
CatchResponse(query, err) ==
  [query |-> query, results |-> <<>>, aiResponse |-> Absent,
   error |-> Present(ErrorMessage(err))]

\* Mutant: the success object also carries an error field.
SuccessResponse_WithError(query, results, aiResponse) ==
  [query |-> query, results |-> results, aiResponse |-> Present(aiResponse),
   error |-> Present(<<>>)]

\* The object returned at the end of the try block.
SuccessResponse(query, results, aiResponse) ==
  [query |-> query, results |-> results, aiResponse |-> Present(aiResponse),
   error |-> Absent]

\* Mutant: the limit is forwarded as given.
ClampLimit_Unclamped(limit) == limit

\* Math.min(limit, 10)
ClampLimit(limit) == IF limit < MaxLimit THEN limit ELSE MaxLimit

\* ------------------------------------------------------ upstream outcomes
Returned(v) == [threw |-> FALSE, value |-> v, err |-> [isError |-> TRUE, message |-> <<>>]]
Threw(e, v) == [threw |-> TRUE, value |-> v, err |-> e]

\* "Failed to generate embedding"
S_EMBED_FAILED ==
  <<70, 97, 105, 108, 101, 100, 32, 116, 111, 32, 103, 101, 110, 101, 114,
    97, 116, 101, 32, 101, 109, 98, 101, 100, 100, 105, 110, 103>>

\* Mutant: a failed primary call is rethrown instead of falling back.
generateEmbedding_Rethrow(text, out) ==
  IF out.kind = "ok"
  THEN Returned(TruncateToDim(PrimaryEmbedding(out.len)))
  ELSE Threw([isError |-> TRUE, message |-> S_EMBED_FAILED], NoEmbedding)

\* generateEmbedding: the primary vector truncated to 384, or, when
\* embedContent throws or its result has no embedding.values (the TypeError
\* is raised inside the try), the fallback vector.
generateEmbedding(text, out) ==
  IF out.kind = "ok"
  THEN Returned(TruncateToDim(PrimaryEmbedding(out.len)))
  ELSE Returned(FallbackEmbedding(text))

\* Mutant: the model's text is returned as is, even when empty.
generateAIResponse_NoFallback(out) ==
  IF out.kind = "text" THEN Returned(out.text) ELSE Returned(APOLOGY_TEXT)

\* Mutant: a failed generative call is rethrown instead of answered with
\* the apology.
generateAIResponse_Rethrow(out) ==
  IF out.kind = "text"
  THEN Returned(IF Len(out.text) > 0 THEN out.text ELSE NO_RESPONSE_TEXT)
  ELSE Threw([isError |-> TRUE, message |-> UNKNOWN_ERROR_TEXT], <<>>)

\* generateAIResponse after generateContent settled: response.text() or the
\* fixed sentence when it is empty; the apology when the call threw or the
\* response has no text() (caught inside).
generateAIResponse(out) ==
  IF out.kind = "text"
  THEN Returned(IF Len(out.text) > 0 THEN out.text ELSE NO_RESPONSE_TEXT)
  ELSE Returned(APOLOGY_TEXT)

\* ------------------------------------------------------------------ state
VARIABLES
  env,   \* the process environment: GEMINI_API_KEY, set or not
  svc,   \* the SearchService singleton: its readonly fields
  req    \* per request: position in the pipeline and its locals

vars == <<env, svc, req>>

Requests == 1..NumRequests

NoService ==
  [constructed |-> FALSE, QDRANT_URL |-> "", QDRANT_API_KEY |-> "",
   GEMINI_API_KEY |-> "", COLLECTION_NAME |-> <<>>, embeddingModel |-> ""]

NoSearch ==
  [collection |-> <<>>, vector |-> NoEmbedding, limit |-> 0,
   with_payload |-> FALSE, with_vector |-> FALSE]

IdleRequest ==
  [pc |-> "idle", query |-> <<>>, limit |-> 0, embedding |-> NoEmbedding,
   search |-> Absent, results |-> <<>>, context |-> <<>>,
   aiResponse |-> Absent, response |-> Absent, log |-> <<>>,
   embedOut |-> Absent, searchOut |-> Absent, genOut |-> Absent]

\* ------------------------------------------------------------ input pools
\* "hi"
Q_HI == <<104, 105>>
\* "How do you say hello"
Q_HELLO ==
  <<72, 111, 119, 32, 100, 111, 32, 121, 111, 117, 32, 115, 97, 121, 32,
    104, 101, 108, 108, 111>>
\* "Wayuunaiki  anaa " (capital, a double space, a trailing space)
Q_WAYUU ==
  <<87, 97, 121, 117, 117, 110, 97, 105, 107, 105, 32, 32, 97, 110, 97, 97, 32>>
\* "doc1.txt"
S_DOC1 == <<100, 111, 99, 49, 46, 116, 120, 116>>
\* "abc"
S_ABC == <<97, 98, 99>>
\* "Unauthorized"
S_UNAUTHORIZED == <<85, 110, 97, 117, 116, 104, 111, 114, 105, 122, 101, 100>>

\* GEMINI_API_KEY unset or set (an empty value reads as unset, see GeminiKey).
EnvValues == {Absent, Present("env-gemini-key")}

EmbedOk(n) == [kind |-> "ok", len |-> n]
EmbedThrows == [kind |-> "throws", len |-> 0]
EmbedMalformed == [kind |-> "malformed", len |-> 0]

SearchOk(hits) == [kind |-> "ok", hits |-> hits, err |-> [isError |-> TRUE, message |-> <<>>]]
SearchThrows(msg) == [kind |-> "throws", hits |-> <<>>, err |-> [isError |-> TRUE, message |-> msg]]

GenText(t) == [kind |-> "text", text |-> t]
GenThrows == [kind |-> "throws", text |-> <<>>]
GenMalformed == [kind |-> "malformed", text |-> <<>>]

Payload(text, file, source, ci, tc, ts) ==
  [text |-> text, file_name |-> file, source |-> source, chunk_index |-> ci,
   total_chunks |-> tc, upload_timestamp |-> ts]

Hit(id, score, payload) == [id |-> id, score |-> score, payload |-> payload]

\* file_name and no source key; a string id and no payload; an empty
\* file_name beside a source key.
HIT_DOC1 ==
  Hit(IntId(42), 9,
      Present(Payload(Present(S_ABC), Present(S_DOC1), Absent,
                      Present(2), Present(3), Present(1700))))
HIT_BARE == Hit(StrId(S_ABC), 5, Absent)
HIT_SRC ==
  Hit(IntId(7), 3,
      Present(Payload(Absent, Present(<<>>), Present(S_ABC),
                      Present(0), Absent, Absent)))

SeqsUpTo(S, n) == UNION {[1..k -> S] : k \in 0..n}

OptNumbers == {Absent, Present(0), Present(2)}

AllPayloads ==
  {Payload(t, f, s, ci, tc, Absent) :
     t \in {Absent, Present(<<>>), Present(S_ABC)},
     f \in {Absent, Present(<<>>), Present(S_DOC1)},
     s \in {Absent, Present(<<>>), Present(S_ABC)},
     ci \in OptNumbers, tc \in OptNumbers}

AllHits ==
  {Hit(id, 4, p) :
     id \in {IntId(0), IntId(1205), StrId(S_ABC)},
     p \in {Absent} \cup {Present(x) : x \in AllPayloads}}

\* Pools of the concurrent specification.
SmallQueries == {Q_HI, <<>>}
SmallBodies == {Absent, Present(DtoMaxLimit + 1)}
SmallEmbedOuts == {EmbedOk(GeminiDim), EmbedThrows}
SmallSearchOuts == {SearchOk(<<HIT_DOC1>>), SearchThrows(S_UNAUTHORIZED)}
SmallGenOuts == {GenText(S_ABC), GenThrows}

\* Pools of the single-request specification.
PipeQueries == {<<>>, Q_HELLO, Q_WAYUU}
PipeBodies == {Absent, Present(3), Present(DtoMaxLimit + 1)}
PipeLimits == {Absent, Present(0 - 1), Present(11), Present(1000)}
PipeEmbedOuts ==
  {EmbedOk(n) : n \in {0, GeminiDim} \cup ((Dim - 1)..MaxPrimaryLen)}
    \cup {EmbedThrows, EmbedMalformed}
PipeSearchOuts ==
  {SearchOk(h) : h \in SeqsUpTo({HIT_DOC1, HIT_SRC}, MaxHits)}
    \cup {SearchThrows(S_UNAUTHORIZED), SearchThrows(<<>>)}
PipeGenOuts == {GenText(S_ABC), GenText(<<>>), GenThrows, GenMalformed}

\* Pools of the normalizer specification: every single hit, and short
\* sequences for order and count.
NormSearchOuts ==
  {SearchOk(<<h>>) : h \in AllHits}
    \cup {SearchOk(h) : h \in SeqsUpTo({HIT_DOC1, HIT_BARE}, MaxHits + 1)}

\* Pools of the context specification: up to MaxContextHits hits whose
\* passages are empty, just under, at, just over and twice the cut.
PassageText(n) == [i \in 1..n |-> 97 + (i % 26)]

PassageLens ==
  <<0, MaxPassageChars - 1, MaxPassageChars, MaxPassageChars + 1,
    2 * MaxPassageChars>>

ContextHit(i, len, n) ==
  Hit(IntId(i), 100 - i,
      Present(Payload(Present(PassageText(len)), Present(S_DOC1), Absent,
                      Present(i - 1), Present(n), Absent)))

ContextHits(n, shift) ==
  [i \in 1..n |->
     ContextHit(i, PassageLens[((i + shift) % Len(PassageLens)) + 1], n)]

ContextSearchOuts ==
  {SearchOk(ContextHits(n, sh)) :
     n \in 0..MaxContextHits, sh \in 0..(Len(PassageLens) - 1)}

\* Pools of the fallback specification: the empty text, a lone separator,
\* hashes that wrap, a zero contribution, bases at the end of the vector and
\* two words that cancel.
\* "d" (hash 100: contribution 0)
Q_D == <<100>>
\* "aca" (base 383)
Q_ACA == <<97, 99, 97>>
\* "lc" (base 375)
Q_LC == <<108, 99>>
\* "anf d d d usctapi" (+29 and -29 on the same slots)
Q_CANCEL ==
  <<97, 110, 102, 32, 100, 32, 100, 32, 100, 32, 117, 115, 99, 116, 97, 112,
    105>>

FallbackQueries ==
  {<<>>, <<32>>, Q_HI, Q_HELLO, Q_WAYUU, Q_D, Q_ACA, Q_LC, Q_CANCEL}

\* ---------------------------------------------------------------- actions
\* process.env.GEMINI_API_KEY || '<literal>'
GeminiKey(e) ==
  IF IsPresent(e) /\ e[1] # "" THEN e[1] ELSE HARDCODED_GEMINI_KEY

\* The field initializers and the constructor: nothing is validated and
\* nothing is thrown.
ConstructService(e) ==
  [constructed |-> TRUE, QDRANT_URL |-> HARDCODED_QDRANT_URL,
   QDRANT_API_KEY |-> HARDCODED_QDRANT_KEY, GEMINI_API_KEY |-> GeminiKey(e),
   COLLECTION_NAME |-> COLLECTION_NAME,
   embeddingModel |-> "text-embedding-004"]

Constructor ==
  /\ ~svc.constructed
  /\ svc' = ConstructService(env)
  /\ UNCHANGED <<env, req>>

\* Mutant: generateAIResponse keeps its model handle in a field of the
\* service.
ServiceAfterStep_CachesModel(s, rq) ==
  IF rq.pc = "generating"
  THEN [s EXCEPT !.embeddingModel = "gemini-1.5-flash"]
  ELSE s

\* The fields of the service are readonly: no statement of a request
\* assigns one.
ServiceAfterStep(s, rq) == s

\* performSemanticSearch up to its first await: generateEmbedding has issued
\* embedContent(text).
BeginSearch(rq, query, limit) ==
  [rq EXCEPT !.pc = "embedding", !.query = query, !.limit = limit,
             !.log = <<"embed.call">>]

\* @IsOptional() @IsNumber() @Min(1) @Max(10)
ValidBody(body) ==
  IF IsPresent(body)
  THEN body[1] >= DtoMinLimit /\ body[1] <= DtoMaxLimit
  ELSE TRUE

\* POST /search with a body the ValidationPipe accepts; limit defaults to 5.
ControllerPerformSearch(r, query, body) ==
  /\ svc.constructed
  /\ req[r].pc = "idle"
  /\ ValidBody(body)
  /\ LET limit == IF IsPresent(body) THEN body[1] ELSE ControllerDefaultLimit
         rq == BeginSearch(req[r], query, limit)
     IN /\ req' = [req EXCEPT ![r] = rq]
        /\ svc' = ServiceAfterStep(svc, rq)
  /\ UNCHANGED env

\* POST /search with a limit outside [1, 10]: answered by the pipe, the
\* service is not called.
ControllerReject(r, query, body) ==
  /\ svc.constructed
  /\ req[r].pc = "idle"
  /\ ~ValidBody(body)
  /\ req' = [req EXCEPT ![r] = [@ EXCEPT !.pc = "rejected", !.query = query]]
  /\ UNCHANGED <<env, svc>>

\* performSemanticSearch(query, limit = 10) called by any other caller of
\* the exported service.
ServiceCall(r, query, optLimit) ==
  /\ svc.constructed
  /\ req[r].pc = "idle"
  /\ LET limit == IF IsPresent(optLimit) THEN optLimit[1]
                  ELSE ServiceDefaultLimit
         rq == BeginSearch(req[r], query, limit)
     IN /\ req' = [req EXCEPT ![r] = rq]
        /\ svc' = ServiceAfterStep(svc, rq)
  /\ UNCHANGED env

\* The catch block of performSemanticSearch.
Abort(rq, err) ==
  [rq EXCEPT !.pc = "done", !.response = Present(CatchResponse(rq.query, err))]

\* embedContent settled: generateEmbedding returns its vector.
OnEmbedSettled(rq, out) ==
  LET g == generateEmbedding(rq.query, out)
      seen == [rq EXCEPT !.embedOut = Present(out),
                         !.log = Append(@, "embed.done")]
  IN IF g.threw THEN Abort(seen, g.err)
     ELSE [seen EXCEPT !.pc = "embedded", !.embedding = g.value]

EmbedSettle(r, out) ==
  /\ req[r].pc = "embedding"
  /\ LET rq == OnEmbedSettled(req[r], out)
     IN /\ req' = [req EXCEPT ![r] = rq]
        /\ svc' = ServiceAfterStep(svc, rq)
  /\ UNCHANGED env

\* The second truncation and the call qdrantClient.search(COLLECTION_NAME,
\* {vector, limit: Math.min(limit, 10), with_payload, with_vector}).
SearchRequest(s, rq) ==
  [collection |-> s.COLLECTION_NAME, vector |-> TruncateToDim(rq.embedding),
   limit |-> ClampLimit(rq.limit), with_payload |-> TRUE,
   with_vector |-> FALSE]

SearchCall(r) ==
  /\ req[r].pc = "embedded"
  /\ LET rq == [req[r] EXCEPT !.pc = "searching",
                              !.search = Present(SearchRequest(svc, req[r])),
                              !.log = Append(@, "search.call")]
     IN /\ req' = [req EXCEPT ![r] = rq]
        /\ svc' = ServiceAfterStep(svc, rq)
  /\ UNCHANGED env

\* Mutant: a failed search is treated as no hits and the answer is generated
\* anyway.
OnSearchSettled_GenerateAnyway(rq, out) ==
  LET seen == [rq EXCEPT !.searchOut = Present(out)]
  IN IF out.kind = "throws"
     THEN [seen EXCEPT !.pc = "generating", !.results = <<>>,
                       !.log = @ \o <<"search.failed", "generate.call">>]
     ELSE [seen EXCEPT !.pc = "generating",
                       !.results = NormalizeHits(out.hits),
                       !.log = @ \o <<"search.done", "generate.call">>]

\* search settled: a throw goes to the catch block; hits are normalized and
\* generateAIResponse issues generateContent on the first five.
OnSearchSettled(rq, out) ==
  LET seen == [rq EXCEPT !.searchOut = Present(out)]
  IN IF out.kind = "throws"
     THEN Abort([seen EXCEPT !.log = Append(@, "search.failed")], out.err)
     ELSE [seen EXCEPT !.pc = "generating",
                       !.results = NormalizeHits(out.hits),
                       !.context =
                         AssembleContext(TopSlice(NormalizeHits(out.hits))),
                       !.log = @ \o <<"search.done", "generate.call">>]

SearchSettle(r, out) ==
  /\ req[r].pc = "searching"
  /\ LET rq == OnSearchSettled(req[r], out)
     IN /\ req' = [req EXCEPT ![r] = rq]
        /\ svc' = ServiceAfterStep(svc, rq)
  /\ UNCHANGED env

\* generateContent settled: generateAIResponse returns a sentence.
OnGenerateSettled(rq, out) ==
  LET g == generateAIResponse(out)
      seen == [rq EXCEPT !.genOut = Present(out),
                         !.log = Append(@, "generate.done")]
  IN IF g.threw THEN Abort(seen, g.err)
     ELSE [seen EXCEPT !.pc = "generated", !.aiResponse = Present(g.value)]

GenerateSettle(r, out) ==
  /\ req[r].pc = "generating"
  /\ LET rq == OnGenerateSettled(req[r], out)
     IN /\ req' = [req EXCEPT ![r] = rq]
        /\ svc' = ServiceAfterStep(svc, rq)
  /\ UNCHANGED env

\* return { query, results, aiResponse }
Return(r) ==
  /\ req[r].pc = "generated"
  /\ LET rq == [req[r] EXCEPT
                  !.pc = "done",
                  !.response = Present(SuccessResponse(req[r].query,
                                 req[r].results, req[r].aiResponse[1]))]
     IN /\ req' = [req EXCEPT ![r] = rq]
        /\ svc' = ServiceAfterStep(svc, rq)
  /\ UNCHANGED env

\* ---------------------------------------------------------- specifications
Init ==
  /\ env \in EnvValues
  /\ svc = NoService
  /\ req = [r \in Requests |-> IdleRequest]

\* Concurrent requests over small pools.
Next ==
  \/ Constructor
  \/ \E r \in Requests, q \in SmallQueries, b \in SmallBodies :
       ControllerPerformSearch(r, q, b)
  \/ \E r \in Requests, q \in SmallQueries, b \in SmallBodies :
       ControllerReject(r, q, b)
  \/ \E r \in Requests, o \in SmallEmbedOuts : EmbedSettle(r, o)
  \/ \E r \in Requests : SearchCall(r)
  \/ \E r \in Requests, o \in SmallSearchOuts : SearchSettle(r, o)
  \/ \E r \in Requests, o \in SmallGenOuts : GenerateSettle(r, o)
  \/ \E r \in Requests : Return(r)

Spec == Init /\ [][Next]_vars

\* One request over wide pools.
NextPipeline ==
  \/ Constructor
  \/ \E q \in PipeQueries, b \in PipeBodies : ControllerPerformSearch(1, q, b)
  \/ \E q \in PipeQueries, b \in PipeBodies : ControllerReject(1, q, b)
  \/ \E q \in PipeQueries, l \in PipeLimits : ServiceCall(1, q, l)
  \/ \E o \in PipeEmbedOuts : EmbedSettle(1, o)
  \/ SearchCall(1)
  \/ \E o \in PipeSearchOuts : SearchSettle(1, o)
  \/ \E o \in PipeGenOuts : GenerateSettle(1, o)
  \/ Return(1)

SpecPipeline == Init /\ [][NextPipeline]_vars

\* One request, every shape of raw hit.
NextNormalize ==
  \/ Constructor
  \/ ServiceCall(1, Q_HI, Absent)
  \/ EmbedSettle(1, EmbedThrows)
  \/ SearchCall(1)
  \/ \E o \in NormSearchOuts : SearchSettle(1, o)
  \/ GenerateSettle(1, GenText(S_ABC))
  \/ Return(1)

SpecNormalize == Init /\ [][NextNormalize]_vars

\* One request, more hits than the context takes and passages around the
\* cut.
NextContext ==
  \/ Constructor
  \/ ServiceCall(1, Q_HI, Absent)
  \/ EmbedSettle(1, EmbedOk(GeminiDim))
  \/ SearchCall(1)
  \/ \E o \in ContextSearchOuts : SearchSettle(1, o)
  \/ \E o \in {GenText(S_ABC), GenThrows} : GenerateSettle(1, o)
  \/ Return(1)

SpecContext == Init /\ [][NextContext]_vars

\* One request whose primary embedding call fails, over the fallback texts.
NextFallback ==
  \/ Constructor
  \/ \E q \in FallbackQueries : ServiceCall(1, q, Absent)
  \/ \E o \in {EmbedThrows, EmbedMalformed} : EmbedSettle(1, o)
  \/ SearchCall(1)
  \/ \E o \in {SearchOk(<<>>), SearchOk(<<HIT_DOC1>>),
               SearchThrows(S_UNAUTHORIZED)} : SearchSettle(1, o)
  \/ \E o \in {GenText(S_ABC), GenThrows} : GenerateSettle(1, o)
  \/ Return(1)

SpecFallback == Init /\ [][NextFallback]_vars

TypeOK ==
  /\ env \in EnvValues
  /\ svc.constructed \in BOOLEAN
  /\ \A r \in Requests :
       req[r].pc \in {"idle", "rejected", "embedding", "embedded",
                      "searching", "generating", "generated", "done"}

\* ------------------------------------------------------------------ claims
Started(r) == req[r].pc \notin {"idle", "rejected"}
Done(r) == req[r].pc = "done"
SearchFailed(r) ==
  IsPresent(req[r].searchOut) /\ req[r].searchOut[1].kind = "throws"
SearchSucceeded(r) ==
  IsPresent(req[r].searchOut) /\ req[r].searchOut[1].kind = "ok"
EmbedFailed(r) ==
  IsPresent(req[r].embedOut) /\ req[r].embedOut[1].kind # "ok"
GenerateFailed(r) ==
  IsPresent(req[r].genOut) /\ req[r].genOut[1].kind # "text"

\* C1: whenever the search call throws, the request is over and its response
\* is exactly {query, results: [], error: the thrown error's message}, with
\* no aiResponse, whatever the query, the limit and the embedding path.
C1_SearchFailureAborts ==
  \A r \in Requests :
    SearchFailed(r) =>
      /\ Done(r)
      /\ req[r].response =
           Present([query |-> req[r].query, results |-> <<>>,
                    aiResponse |-> Absent,
                    error |-> Present(req[r].searchOut[1].err.message)])

C1_Witness ==
  \E r \in Requests :
    /\ SearchFailed(r)
    /\ EmbedFailed(r)
    /\ req[r].limit = 1000
    /\ req[r].query = Q_HELLO
    /\ req[r].searchOut[1].err.message = S_UNAUTHORIZED
    /\ IsPresent(req[r].response)

\* C2: when the search succeeded and the generative call failed, the results
\* stay the normalized hits, aiResponse is the apology sentence, and the
\* response returned carries them with no error.
C2_GenerationFailureKeepsResults ==
  \A r \in Requests :
    (SearchSucceeded(r) /\ GenerateFailed(r)) =>
      /\ req[r].pc \in {"generated", "done"}
      /\ req[r].results = NormalizeHits(req[r].searchOut[1].hits)
      /\ req[r].aiResponse = Present(APOLOGY_TEXT)
      /\ Done(r) =>
           req[r].response =
             Present([query |-> req[r].query,
                      results |-> NormalizeHits(req[r].searchOut[1].hits),
                      aiResponse |-> Present(APOLOGY_TEXT),
                      error |-> Absent])

C2_Witness ==
  \E r \in Requests :
    /\ Done(r)
    /\ SearchSucceeded(r)
    /\ req[r].genOut = Present(GenThrows)
    /\ Len(req[r].response[1].results) = MaxHits
    /\ req[r].response[1].aiResponse = Present(APOLOGY_TEXT)

\* C3: a failed primary embedding call (a throw or a result without values)
\* is not surfaced: generateEmbedding returns the hash-based vector, the
\* search call is issued with it, and an error in the response comes from
\* the search call only.
C3_EmbeddingFailureRecovered ==
  \A r \in Requests :
    EmbedFailed(r) =>
      /\ req[r].embedding = FallbackEmbedding(req[r].query)
      /\ req[r].pc = "embedded" \/ IsPresent(req[r].search)
      /\ IsPresent(req[r].search) =>
           req[r].search[1].vector = FallbackEmbedding(req[r].query)
      /\ (Done(r) /\ IsPresent(req[r].response[1].error)) => SearchFailed(r)

C3_Witness ==
  \E r \in Requests :
    /\ Done(r)
    /\ req[r].embedOut = Present(EmbedMalformed)
    /\ req[r].query = Q_WAYUU
    /\ SearchSucceeded(r)
    /\ req[r].search[1].vector.den2 > 0
    /\ ~IsPresent(req[r].response[1].error)

\* C4: for every combination of upstream outcomes a finished request holds a
\* response whose query is the input query and which has exactly one of two
\* shapes: no error, an aiResponse and the normalized results; or an error,
\* no results and no aiResponse.  Zero hits give results = [], an aiResponse
\* and no error.
C4_ResponseShape ==
  \A r \in Requests :
    /\ Done(r) <=> IsPresent(req[r].response)
    /\ Done(r) =>
         LET resp == req[r].response[1]
             ok == /\ ~IsPresent(resp.error)
                   /\ IsPresent(resp.aiResponse)
                   /\ Len(resp.aiResponse[1]) > 0
                   /\ SearchSucceeded(r)
                   /\ resp.results = NormalizeHits(req[r].searchOut[1].hits)
             aborted == /\ IsPresent(resp.error)
                        /\ resp.results = <<>>
                        /\ ~IsPresent(resp.aiResponse)
         IN /\ resp.query = req[r].query
            /\ ok \/ aborted
            /\ ~(ok /\ aborted)
            /\ (SearchSucceeded(r) /\ req[r].searchOut[1].hits = <<>>) =>
                 (ok /\ resp.results = <<>>)

C4_Witness ==
  \E r \in Requests :
    /\ Done(r)
    /\ SearchSucceeded(r)
    /\ req[r].searchOut[1].hits = <<>>
    /\ req[r].genOut = Present(GenText(<<>>))
    /\ req[r].response[1].results = <<>>
    /\ req[r].response[1].aiResponse = Present(NO_RESPONSE_TEXT)

\* C5: the vector passed to the search backend has exactly 384 components,
\* whichever path produced it and whatever length the primary model returned.
C5_SearchVectorHasDim ==
  \A r \in Requests :
    IsPresent(req[r].search) => Len(req[r].search[1].vector.vals) = Dim

\* C6: the limit forwarded to the search backend is at most 10 for every
\* limit that reaches performSemanticSearch, the defaults included.
C6_LimitClamped ==
  \A r \in Requests :
    IsPresent(req[r].search) =>
      /\ req[r].search[1].limit <= MaxLimit
      /\ req[r].search[1].limit <= req[r].limit

C6_Witness ==
  \E r \in Requests :
    /\ req[r].limit = 1000
    /\ IsPresent(req[r].search)
    /\ req[r].search[1].limit = MaxLimit

\* C7: when a required configuration value is missing (here the
\* GEMINI_API_KEY of the environment), construction fails, so the service is
\* never constructed and no request is ever handled.
MissingConfig == IF IsPresent(env) THEN env[1] = "" ELSE TRUE

C7_MissingConfigFailsStartup ==
  MissingConfig => (~svc.constructed /\ \A r \in Requests : ~Started(r))

\* C8: within a request the external calls go embed, search, generate, each
\* issued after the previous one settled and each at most once; generate is
\* issued only after the search returned successfully.
CallsWhenSearchSucceeds ==
  <<"embed.call", "embed.done", "search.call", "search.done",
    "generate.call", "generate.done">>
CallsWhenSearchFails ==
  <<"embed.call", "embed.done", "search.call", "search.failed">>

IsPrefix(a, b) == Len(a) <= Len(b) /\ a = SubSeq(b, 1, Len(a))

C8_CallOrder ==
  \A r \in Requests :
    /\ \/ IsPrefix(req[r].log, CallsWhenSearchSucceeds)
       \/ IsPrefix(req[r].log, CallsWhenSearchFails)
    /\ (\E i \in 1..Len(req[r].log) : req[r].log[i] = "generate.call")
         => SearchSucceeded(r)
    /\ Done(r) => req[r].log \in {CallsWhenSearchSucceeds, CallsWhenSearchFails}

C8_Witness ==
  \E r \in Requests :
    /\ Done(r)
    /\ req[r].log = CallsWhenSearchSucceeds
    /\ \E o \in Requests : o # r /\ req[o].log = CallsWhenSearchFails

\* The response of a request run alone: performSemanticSearch from top to
\* bottom on the request's own query and the outcomes of its own calls.
SoloResponse(query, embedOut, searchOut, genOut) ==
  LET e == generateEmbedding(query, embedOut[1])
  IN IF e.threw THEN CatchResponse(query, e.err)
     ELSE IF searchOut[1].kind = "throws"
          THEN CatchResponse(query, searchOut[1].err)
          ELSE LET a == generateAIResponse(genOut[1])
               IN IF a.threw THEN CatchResponse(query, a.err)
                  ELSE SuccessResponse(query, NormalizeHits(searchOut[1].hits),
                                       a.value)

\* C9: concurrent requests are independent: handling requests never writes
\* the process-wide service fields, which stay as the constructor left them,
\* and under every interleaving a finished request's response is the one it
\* gets when run alone on its own query and its own upstream outcomes.
C9_RequestsIndependent ==
  /\ svc.constructed => svc = ConstructService(env)
  /\ \A r \in Requests :
       Done(r) =>
         req[r].response =
           Present(SoloResponse(req[r].query, req[r].embedOut,
                                req[r].searchOut, req[r].genOut))

C9_Witness ==
  /\ \A r \in Requests : Done(r)
  /\ \E a \in Requests, b \in Requests :
       /\ req[a].query # req[b].query
       /\ IsPresent(req[a].response[1].error)
       /\ req[b].response[1].aiResponse = Present(S_ABC)
       /\ Len(req[b].response[1].results) = 1

\* Decimal digits back to the number they print.
RECURSIVE ParseDecimal(_, _)
ParseDecimal(s, n) ==
  IF n = 0 THEN 0 ELSE 10 * ParseDecimal(s, n - 1) + (s[n] - 48)

IsDecimal(s) == Len(s) > 0 /\ \A i \in 1..Len(s) : s[i] \in 48..57

IdMatches(str, id) ==
  IF id.t = "int"
  THEN IsDecimal(str) /\ ParseDecimal(str, Len(str)) = id.n
  ELSE str = id.s

\* The fields of a result that do not depend on how a key counts as given:
\* id, score, text, chunk_index, total_chunks.
PlainFieldsMatch(res, hit) ==
  /\ IdMatches(res.id, hit.id)
  /\ res.score = hit.score
  /\ res.payload.text =
       (IF IsPresent(PayloadKey(hit, "text"))
        THEN PayloadKey(hit, "text")[1] ELSE <<>>)
  /\ res.payload.chunk_index =
       (IF IsPresent(PayloadKey(hit, "chunk_index"))
        THEN PayloadKey(hit, "chunk_index")[1] ELSE 0)
  /\ res.payload.total_chunks =
       (IF IsPresent(PayloadKey(hit, "total_chunks"))
        THEN PayloadKey(hit, "total_chunks")[1] ELSE 0)

\* C10 as stated: every raw hit is normalized, in the backend's order and
\* count, with the id in string form, text or "", chunk counters or 0, and
\* source = file_name if present, else the source key if present, else "".
C10_NormalizerByPresence ==
  \A r \in Requests :
    SearchSucceeded(r) =>
      LET hits == req[r].searchOut[1].hits
          res == req[r].results
      IN /\ Len(res) = Len(hits)
         /\ \A i \in 1..Len(hits) :
              /\ PlainFieldsMatch(res[i], hits[i])
              /\ res[i].payload.source =
                   (IF IsPresent(PayloadKey(hits[i], "file_name"))
                    THEN PayloadKey(hits[i], "file_name")[1]
                    ELSE IF IsPresent(PayloadKey(hits[i], "source"))
                         THEN PayloadKey(hits[i], "source")[1]
                         ELSE <<>>)

\* C10 amended: as above, but source = file_name if present and not empty,
\* else the source key if present and not empty, else "".
C10_NormalizerByNonEmpty ==
  \A r \in Requests :
    SearchSucceeded(r) =>
      LET hits == req[r].searchOut[1].hits
          res == req[r].results
      IN /\ Len(res) = Len(hits)
         /\ \A i \in 1..Len(hits) :
              /\ PlainFieldsMatch(res[i], hits[i])
              /\ res[i].payload.source =
                   (IF IsPresent(PayloadKey(hits[i], "file_name"))
                       /\ PayloadKey(hits[i], "file_name")[1] # <<>>
                    THEN PayloadKey(hits[i], "file_name")[1]
                    ELSE IF IsPresent(PayloadKey(hits[i], "source"))
                            /\ PayloadKey(hits[i], "source")[1] # <<>>
                         THEN PayloadKey(hits[i], "source")[1]
                         ELSE <<>>)

C10_Witness ==
  \E r \in Requests :
    /\ Done(r)
    /\ SearchSucceeded(r)
    /\ Len(req[r].searchOut[1].hits) = 1
    /\ LET hit == req[r].searchOut[1].hits[1]
       IN /\ hit.id = IntId(1205)
          /\ PayloadKey(hit, "file_name") = Present(S_DOC1)
          /\ PayloadKey(hit, "source") = Absent
          /\ PayloadKey(hit, "text") = Absent
          /\ PayloadKey(hit, "chunk_index") = Absent
    /\ req[r].response[1].results[1].payload.source = S_DOC1
    /\ req[r].response[1].results[1].id = <<49, 50, 48, 53>>

Min(a, b) == IF a < b THEN a ELSE b

\* C11: the context handed to the generative model has one block for each
\* of the first min(5, number of results) results, in the order supplied
\* and ranked from 1, and the passage of a block is the first
\* min(800, length) characters of its result's text, never more than 800.
C11_ContextBlocks ==
  \A r \in Requests :
    SearchSucceeded(r) =>
      LET res == req[r].results
          ctx == req[r].context
      IN /\ Len(ctx) = Min(TopResults, Len(res))
         /\ \A i \in 1..Len(ctx) :
              LET text == res[i].payload.text
                  content == ctx[i].content
              IN /\ ctx[i].rank = i
                 /\ ctx[i].score = res[i].score
                 /\ ctx[i].source = res[i].payload.source
                 /\ Len(content) <= MaxPassageChars
                 /\ Len(content) = Min(MaxPassageChars, Len(text))
                 /\ \A k \in 1..Len(content) : content[k] = text[k]

C11_Witness ==
  \E r \in Requests :
    /\ req[r].pc = "generating"
    /\ Len(req[r].results) = TopResults + 1
    /\ Len(req[r].context) = TopResults
    /\ \E i \in 1..TopResults :
         /\ Len(req[r].results[i].payload.text) = 2 * MaxPassageChars
         /\ Len(req[r].context[i].content) = MaxPassageChars
    /\ \E i \in 1..TopResults :
         /\ Len(req[r].results[i].payload.text) = MaxPassageChars - 1
         /\ Len(req[r].context[i].content) = MaxPassageChars - 1

\* The low 16 bits of the hash, by Horner's rule modulo 2^16.
RECURSIVE Low16(_, _)
Low16(word, n) ==
  IF n = 0 THEN 0 ELSE (31 * Low16(word, n - 1) + word[n]) % 65536

\* What the words add to slot k (0-based), in hundredths.
RECURSIVE SlotSum(_, _, _)
SlotSum(words, n, k) ==
  IF n = 0 THEN 0
  ELSE LET base == BaseIndex(WordHash(words[n]), n - 1)
       IN SlotSum(words, n - 1, k)
            + (IF k >= base /\ k < base + SpreadSlots
               THEN JSRem(WordHash(words[n]), HashMod) ELSE 0)

RECURSIVE SquaresOver(_, _)
SquaresOver(v, S) ==
  IF S = {} THEN 0
  ELSE LET k == CHOOSE x \in S : TRUE
       IN v[k] * v[k] + SquaresOver(v, S \ {k})

\* C12: the fallback embedding has exactly 384 components; each word's
\* wrapped hash gives a baseIndex in [0, 384) and its contribution goes only
\* to at most 10 consecutive slots from baseIndex inside the vector; the
\* vector has unit L2 norm, except that an all-zero accumulated vector has
\* norm zero and the division gives a non-finite vector.
C12_FallbackEmbedding ==
  \A r \in Requests :
    EmbedFailed(r) =>
      LET words == SplitWhitespace(ToLowerCase(req[r].query))
          e == req[r].embedding
          zero == [k \in 1..Dim |-> 0]
          nonzero == {k \in 1..Len(e.vals) : e.vals[k] # 0}
      IN /\ Len(e.vals) = Dim
         /\ \A w \in 1..Len(words) :
              LET hash == WordHash(words[w])
                  base == BaseIndex(hash, w - 1)
                  delta == AddWord(zero, words[w], w - 1)
                  touched == {k \in 1..Len(delta) : delta[k] # 0}
              IN /\ hash % 65536 = Low16(words[w], Len(words[w]))
                 /\ base \in 0..(Dim - 1)
                 /\ Len(delta) = Dim
                 /\ touched \subseteq (base + 1)..Min(base + SpreadSlots, Dim)
                 /\ Cardinality(touched) <= SpreadSlots
                 /\ \A k \in touched : delta[k] = JSRem(hash, HashMod)
         /\ \A k \in 1..Dim : e.vals[k] = SlotSum(words, Len(words), k - 1)
         /\ IF nonzero = {}
            THEN e.den2 = 0
            ELSE e.den2 > 0 /\ e.den2 = SquaresOver(e.vals, nonzero)

C12_Witness ==
  \E r \in Requests :
    /\ EmbedFailed(r)
    /\ req[r].pc = "searching"
    /\ req[r].query = Q_WAYUU
    /\ WordHash(SplitWhitespace(ToLowerCase(Q_WAYUU))[1]) < 0
    /\ Len(req[r].search[1].vector.vals) = Dim
    /\ req[r].search[1].vector.den2 > 0

\* C13: when the generative call succeeds, aiResponse is the model's text
\* verbatim if it is not empty and the "could not generate a response"
\* sentence if it is; that sentence differs from the apology returned when
\* the call fails, so an empty text and a failed call give different
\* aiResponse values, and aiResponse is never empty.
C13_DegenerateAnswers ==
  /\ NO_RESPONSE_TEXT # APOLOGY_TEXT
  /\ \A r \in Requests :
       IsPresent(req[r].genOut) =>
         LET out == req[r].genOut[1]
             ai == req[r].aiResponse
         IN /\ IsPresent(ai)
            /\ Len(ai[1]) > 0
            /\ (out.kind = "text" /\ out.text # <<>>) => ai[1] = out.text
            /\ (out.kind = "text" /\ out.text = <<>>) =>
                 (ai[1] = NO_RESPONSE_TEXT /\ ai[1] # APOLOGY_TEXT)
            /\ out.kind # "text" =>
                 (ai[1] = APOLOGY_TEXT /\ ai[1] # NO_RESPONSE_TEXT)
            /\ Done(r) => req[r].response[1].aiResponse = ai

C13_Witness ==
  \E r \in Requests :
    /\ req[r].pc = "generated"
    /\ req[r].genOut = Present(GenText(<<>>))
    /\ Len(req[r].results) > 0
    /\ req[r].aiResponse = Present(NO_RESPONSE_TEXT)
====
